---- MODULE Spec2Model ----
(***************************************************************************)
(* Model of the streaming path of the Mistral Chat node's process()       *)
(* (src/src/nodes/mistralChatNode.ts): the line-buffered decoder of the    *)
(* `data: <json>` event stream, the partial-output accumulator and the     *)
(* usage recovery that follows the end of the stream.                      *)
(*                                                                         *)
(* Text is a sequence of symbols.  The symbols of the `data: ` prefix, of  *)
(* the `[DONE]` sentinel, of whitespace and of the response text are       *)
(* single characters; a JSON payload is written as two or three fragments  *)
(* (each a run of characters that a read never splits), so that a read can *)
(* still end inside the prefix or inside a payload.  Byte-to-text decoding *)
(* (TextDecoder) is the platform's and is not modelled: a read delivers    *)
(* text.  The partial-output callback is taken to be present.  Costs are   *)
(* integers in units of 1/10000 cent; prices in 1/100 of a currency unit.  *)
(*                                                                         *)
(* Five specifications share the variables.  Spec starts at the top of     *)
(* the read loop and covers the decoder over every body of MaxLines lines. *)
(* SpecRequest starts at the call of process and covers the checks, the    *)
(* resolution of the fields and the message list, up to the call of fetch, *)
(* over the toggles and the values on the input ports.  SpecProcess covers *)
(* the whole invocation (request, status, streaming or non-streaming body, *)
(* the host's cancellation signal) over the models and currencies.         *)
(* SpecDecoders runs the generator streamChatCompletions (src/src/         *)
(* mistral.ts) on the reads of Spec, and SpecPair runs two invocations of  *)
(* the read loop at once.                                                  *)
(***************************************************************************)
EXTENDS Integers, Sequences, FiniteSets, TLC

\* ------------------------------------------------------------------ bounds
MaxLines == 3   \* lines in the response body
MaxRead == 3    \* symbols in one short read (a read may also deliver all that is left)

\* ------------------------------------------------------------- characters
NL == "\n"
Whitespace == {" ", "\t", "\r", NL}
DataPrefix == <<"d", "a", "t", "a", ":", " ">>
DoneSentinel == <<"[", "D", "O", "N", "E", "]">>

TextHi == <<"H", "i">>
TextThere == <<" ", "t", "h", "e", "r", "e">>
TextHello == <<"h", "e", "l", "l", "o">>
TextBrief == <<"B", "e", " ", "b", "r", "i", "e", "f">>

RECURSIVE Join_Spaced(_)
\* Mutant of Join: join(' '), a separator between the parts.
Join_Spaced(parts) ==
    IF parts = <<>> THEN <<>>
    ELSE IF Len(parts) = 1 THEN Head(parts)
    ELSE Head(parts) \o <<" ">> \o Join_Spaced(Tail(parts))

RECURSIVE Join(_)
\* Array.prototype.join(''): the concatenation of the parts.
Join(parts) == IF parts = <<>> THEN <<>> ELSE Head(parts) \o Join(Tail(parts))

\* ------------------------------------------------------------ JSON values
NoUsage == [present |-> FALSE, prompt_tokens |-> 0, completion_tokens |-> 0, total_tokens |-> 0]
Usage(p, c, t) == [present |-> TRUE, prompt_tokens |-> p, completion_tokens |-> c, total_tokens |-> t]
NoContent == [present |-> FALSE, text |-> <<>>]
Content(t) == [present |-> TRUE, text |-> t]
\* choices: "absent" (no `choices` member) or "delta" (one entry with a delta)
JsonObj(ch, co, us) == [choices |-> ch, content |-> co, usage |-> us]

FragOpen == "{\"choices\":[{\"delta\":{\"content\":"
FragHi == "\"Hi\"}}]}"
FragThere == "\" there\"}}]}"
FragEmptyMore == "\"\"}}],\"usage\":"
FragHiMore == "\"Hi\"}}],\"usage\":"
FragUsage7 == "{\"prompt_tokens\":5,\"completion_tokens\":2,\"total_tokens\":7}}"
FragUsage0 == "{\"prompt_tokens\":0,\"completion_tokens\":0,\"total_tokens\":0}}"
FragUsageOnly == "{\"usage\":"
FragUsageMillion == "{\"prompt_tokens\":1000000,\"completion_tokens\":0,\"total_tokens\":1000000}}"

PayloadHi == <<FragOpen, FragHi>>
PayloadThere == <<FragOpen, FragThere>>
PayloadEmptyZero == <<FragOpen, FragEmptyMore, FragUsage0>>
PayloadHiUsage == <<FragOpen, FragHiMore, FragUsage7>>
PayloadUsageOnly == <<FragUsageOnly, FragUsage7>>
PayloadHiMillion == <<FragOpen, FragHiMore, FragUsageMillion>>
PayloadMalformed == <<"{", "not json">>

\* JSON.parse on the texts of the model: the value of each well-formed text;
\* every other text (a truncated payload, `{not json`, `[DONE]`) throws.
JsonWellFormed(p) ==
    p \in {PayloadHi, PayloadThere, PayloadEmptyZero, PayloadHiUsage, PayloadUsageOnly,
           PayloadHiMillion}

JsonParse(p) ==
    CASE p = PayloadHi -> JsonObj("delta", Content(TextHi), NoUsage)
      [] p = PayloadThere -> JsonObj("delta", Content(TextThere), NoUsage)
      [] p = PayloadEmptyZero -> JsonObj("delta", Content(<<>>), Usage(0, 0, 0))
      [] p = PayloadHiUsage -> JsonObj("delta", Content(TextHi), Usage(5, 2, 7))
      [] p = PayloadUsageOnly -> JsonObj("absent", NoContent, Usage(5, 2, 7))
      [] p = PayloadHiMillion -> JsonObj("delta", Content(TextHi), Usage(1000000, 0, 1000000))
      [] OTHER -> JsonObj("absent", NoContent, NoUsage)

\* ----------------------------------------------------------- the response
LineKinds == {"blank", "noprefix", "done", "hi", "there", "malformed", "usageOnly",
              "emptyZero", "hiUsage"}

\* The text of one line of the body, without its newline.
LineText(k) ==
    CASE k = "blank" -> <<>>
      [] k = "noprefix" -> <<"d", "a", "t", "a", ":">> \o PayloadHi
      [] k = "done" -> DataPrefix \o DoneSentinel
      [] k = "hi" -> DataPrefix \o PayloadHi
      [] k = "there" -> DataPrefix \o PayloadThere
      [] k = "malformed" -> DataPrefix \o PayloadMalformed
      [] k = "usageOnly" -> DataPrefix \o PayloadUsageOnly
      [] k = "emptyZero" -> DataPrefix \o PayloadEmptyZero
      [] k = "hiUsage" -> DataPrefix \o PayloadHiUsage
      [] k = "hiMillion" -> DataPrefix \o PayloadHiMillion

RECURSIVE Render(_, _)
\* The body: every line followed by a newline, except the last when the
\* server closed the stream without one.
Render(kinds, term) ==
    IF kinds = <<>> THEN <<>>
    ELSE IF Len(kinds) = 1
         THEN LineText(kinds[1]) \o (IF term THEN <<NL>> ELSE <<>>)
         ELSE LineText(kinds[1]) \o <<NL>> \o Render(Tail(kinds), term)

\* ------------------------------------------------------------ price table
ModelLarge == "mistral-large-latest"
ModelEmbed == "mistral-embed"
ModelOcr == "mistral-ocr-latest"
ModelUnknown == "ft:custom-model"
KnownModels == {ModelLarge, ModelEmbed, ModelOcr}
Currencies == {"USD", "EUR"}

\* mistralModels[model].cost[kind][currency], the price strings as written.
PriceString(m, kind, cur) ==
    CASE m = ModelLarge /\ kind = "prompt" /\ cur = "USD" -> <<"$", "2">>
      [] m = ModelLarge /\ kind = "prompt" /\ cur = "EUR" -> <<"1", ".", "8", " ", "E">>
      [] m = ModelLarge /\ kind = "completion" /\ cur = "USD" -> <<"$", "6">>
      [] m = ModelLarge /\ kind = "completion" /\ cur = "EUR" -> <<"5", ".", "4", " ", "E">>
      [] m = ModelEmbed /\ kind = "prompt" /\ cur = "USD" -> <<"$", "0", ".", "1">>
      [] m = ModelEmbed /\ kind = "prompt" /\ cur = "EUR" -> <<"0", ".", "0", "9", " ", "E">>
      [] m = ModelOcr /\ kind = "prompt" /\ cur = "USD" ->
            <<"1", "0", "0", "0", " ", "P", "a", "g", "e", "s", " ", "/", " ", "$", "1">>
      [] m = ModelOcr /\ kind = "prompt" /\ cur = "EUR" ->
            <<"1", "0", "0", "0", " ", "P", "a", "g", "e", "s", " ", "/", " ", "1", "E">>
      [] OTHER -> <<"-">>

\* The placeholder entry used when the model id is not in the table.
FallbackPriceString(cur) == IF cur = "USD" THEN <<"$", "0">> ELSE <<"0", " ", "E">>

ModelPriceString(m, kind, cur) ==
    IF m \in KnownModels THEN PriceString(m, kind, cur) ELSE FallbackPriceString(cur)

Digits == <<"0", "1", "2", "3", "4", "5", "6", "7", "8", "9">>
IsNumericChar(c) == c = "." \/ \E d \in 1..10 : Digits[d] = c
DigitValue(c) == (CHOOSE d \in 1..10 : Digits[d] = c) - 1

\* str.replace(/[^0-9.]/g, '')
StripNonNumeric(s) == SelectSeq(s, IsNumericChar)

RECURSIVE DigitsValue(_)
DigitsValue(ds) ==
    IF ds = <<>> THEN 0
    ELSE DigitsValue(SubSeq(ds, 1, Len(ds) - 1)) * 10 + DigitValue(ds[Len(ds)])

NaN == -1
\* parseFloat of a string of digits and dots, in hundredths (the table has at
\* most two decimals); NaN when no digit starts the number.
ParseFloat(t) ==
    LET dots == {i \in 1..Len(t) : t[i] = "."}
        dot1 == IF dots = {} THEN Len(t) + 1 ELSE CHOOSE i \in dots : \A j \in dots : i <= j
        later == {i \in dots : i > dot1}
        stop == IF later = {} THEN Len(t) + 1 ELSE CHOOSE i \in later : \A j \in later : i <= j
        whole == SubSeq(t, 1, dot1 - 1)
        frac == SubSeq(t, dot1 + 1, stop - 1)
        frac2 == SubSeq(frac \o <<"0", "0">>, 1, 2)
    IN IF whole = <<>> /\ frac = <<>> THEN NaN
       ELSE DigitsValue(whole) * 100 + DigitsValue(frac2)

PromptCostPerMillion(m, cur) == ParseFloat(StripNonNumeric(ModelPriceString(m, "prompt", cur)))

\* Mutant of CompletionCostPerMillion: the "-" sentinel is parsed like a price.
CompletionCostPerMillion_NoSentinel(m, cur) ==
    ParseFloat(StripNonNumeric(ModelPriceString(m, "completion", cur)))

CompletionCostPerMillion(m, cur) ==
    LET str == ModelPriceString(m, "completion", cur)
    IN IF str = <<"-">> THEN 0 ELSE ParseFloat(StripNonNumeric(str))

\* Mutant of TokenCostCents: the completion tokens are priced as prompt tokens.
TokenCostCents_PromptPrice(m, cur, usage) ==
    LET pp == PromptCostPerMillion(m, cur)
    IN IF pp = NaN THEN NaN
       ELSE ((usage.prompt_tokens + usage.completion_tokens) * pp + 50) \div 100

\* Number((totalCostDollars * 100).toFixed(4)), in units of 1/10000 cent:
\* tokens / 1e6 * (price / 100) * 100 * 1e4 = tokens * price / 100, rounded.
TokenCostCents(m, cur, usage) ==
    LET pp == PromptCostPerMillion(m, cur)
        cp == CompletionCostPerMillion(m, cur)
    IN IF pp = NaN \/ cp = NaN THEN NaN
       ELSE (usage.prompt_tokens * pp + usage.completion_tokens * cp + 50) \div 100

\* ---------------------------------------------------------- chat messages
CreateAssistantMessage(content) == [type |-> "assistant", message |-> content]
CreateSystemMessage(content) == [type |-> "system", message |-> content]
CreateUserMessage(content) == [type |-> "user", message |-> content]

\* The request message m as a chat message of the `messages` output.
ToChatMessage(m) ==
    IF m.role = "system" THEN CreateSystemMessage(m.content)
    ELSE IF m.role = "user" THEN CreateUserMessage(m.content)
    ELSE CreateAssistantMessage(m.content)

\* ------------------------------------------------------ locals of process
ZeroUsage == [prompt_tokens |-> 0, completion_tokens |-> 0, total_tokens |-> 0]
NoDetails == [note |-> FALSE, prompt |-> 0, completion |-> 0, total |-> 0,
              estimatedCostCents |-> 0, currency |-> "USD"]
\* `output`: the ports set so far and their values (a port not in `ports`
\* holds a filler that nothing reads).
EmptyOutput == [ports |-> {}, response |-> <<>>, message |-> CreateAssistantMessage(<<>>),
                messages |-> <<>>, tokenDetails |-> NoDetails]

InitLocals == [buffer |-> <<>>, responseParts |-> <<>>, allChunks |-> <<>>,
               tokenUsageFound |-> FALSE, tokenUsage |-> ZeroUsage,
               output |-> EmptyOutput, emitted |-> <<>>]

\* ------------------------------------------------------------ the decoder
RECURSIVE SplitFrom(_, _, _)
SplitFrom(s, i, cur) ==
    IF i > Len(s) THEN <<cur>>
    ELSE IF s[i] = NL THEN <<cur>> \o SplitFrom(s, i + 1, <<>>)
    ELSE SplitFrom(s, i + 1, Append(cur, s[i]))

\* buffer.split('\n')
Split(s) == SplitFrom(s, 1, <<>>)

\* Mutant of CompleteLines: the last part is not popped, so an incomplete
\* line is processed too.
CompleteLines_All(parts) == parts

\* `lines` after lines.pop(): every part but the last.
CompleteLines(parts) == SubSeq(parts, 1, Len(parts) - 1)

\* Mutant of HoldBack: the buffer is cleared after every read.
HoldBack_Drop(parts) == <<>>

\* buffer = lines.pop() || '': the last part is held back.
HoldBack(parts) == parts[Len(parts)]

RECURSIVE Trim(_)
\* String.prototype.trim
Trim(s) ==
    IF s = <<>> THEN s
    ELSE IF Head(s) \in Whitespace THEN Trim(Tail(s))
    ELSE IF s[Len(s)] \in Whitespace THEN Trim(SubSeq(s, 1, Len(s) - 1))
    ELSE s

IsBlank(line) == Trim(line) = <<>>

\* line.startsWith('data: ')
HasDataPrefix(line) ==
    Len(line) >= Len(DataPrefix) /\ SubSeq(line, 1, Len(DataPrefix)) = DataPrefix

\* line.slice(6)
DataContent(line) == SubSeq(line, 7, Len(line))

\* Mutant of IsDone: the sentinel is not recognised.
IsDone_Never(dataContent) == FALSE

IsDone(dataContent) == dataContent = DoneSentinel

\* ------------------------------------------------- the chunk accumulator
\* jsonData.usage && jsonData.usage.total_tokens
CarriesUsage(json) == json.usage.present /\ json.usage.total_tokens # 0

UsageOf(json) == [prompt_tokens |-> json.usage.prompt_tokens,
                  completion_tokens |-> json.usage.completion_tokens,
                  total_tokens |-> json.usage.total_tokens]

\* Mutant of CaptureUsage: the first record found is kept.
CaptureUsage_First(l, json) ==
    IF CarriesUsage(json) /\ ~l.tokenUsageFound
    THEN [l EXCEPT !.tokenUsageFound = TRUE, !.tokenUsage = UsageOf(json)]
    ELSE l

\* Mutant of CaptureUsage: nothing is captured while streaming.
CaptureUsage_Skip(l, json) == l

CaptureUsage(l, json) ==
    IF CarriesUsage(json)
    THEN [l EXCEPT !.tokenUsageFound = TRUE, !.tokenUsage = UsageOf(json)]
    ELSE l

\* Mutant of HasContent: `content !== undefined`, true of the empty string.
HasContent_Defined(c) == c.present

\* if (content): a delta that is present and not the empty string
HasContent(c) == c.present /\ c.text # <<>>

\* Mutant of PushPart: the parts are replaced by the new delta.
PushPart_Replace(l, content) == <<content>>

\* responseParts.push(content)
PushPart(l, content) == Append(l.responseParts, content)

\* Mutant of SnapshotMessages: the assistant message is appended to the
\* list of the previous snapshot.
SnapshotMessages_Accumulate(l, req, assistantMessage) ==
    IF "messages" \in l.output.ports
    THEN l.output.messages \o <<assistantMessage>>
    ELSE [i \in 1..Len(req.messages) |-> ToChatMessage(req.messages[i])] \o <<assistantMessage>>

\* The `messages` port: the request messages as chat messages, then the
\* assistant message.
SnapshotMessages(l, req, assistantMessage) ==
    [i \in 1..Len(req.messages) |-> ToChatMessage(req.messages[i])] \o <<assistantMessage>>

\* The tokenDetails value built from a usage record found in the stream.
ExactDetails(req, usage) ==
    [note |-> FALSE, prompt |-> usage.prompt_tokens, completion |-> usage.completion_tokens,
     total |-> usage.total_tokens,
     estimatedCostCents |-> TokenCostCents(req.model, req.currency, usage),
     currency |-> req.currency]

\* A chunk with content: the ports are rewritten in place and the callback
\* is handed `output`; `emitted` logs what it holds at that call.
EmitPartial(l, req, content) ==
    LET parts == PushPart(l, content)
        currentResponse == Join(parts)
        assistantMessage == CreateAssistantMessage(currentResponse)
        out1 == [l.output EXCEPT !.ports = @ \cup {"response", "message", "messages"},
                                 !.response = currentResponse,
                                 !.message = assistantMessage,
                                 !.messages = SnapshotMessages(l, req, assistantMessage)]
        out2 == IF l.tokenUsageFound
                THEN [out1 EXCEPT !.ports = @ \cup {"tokenDetails"},
                                  !.tokenDetails = ExactDetails(req, l.tokenUsage)]
                ELSE out1
    IN [l EXCEPT !.responseParts = parts, !.output = out2, !.emitted = Append(@, out2)]

\* catch (e) { console.error(...) }: the chunk is dropped, what was done
\* before the throw stays.
OnParseError(l) == l

\* One `data: ` payload other than [DONE].  A payload without `choices`
\* throws at choices[0], inside the same try.
ProcessData(l, req, dataContent) ==
    LET l1 == [l EXCEPT !.allChunks = Append(@, dataContent)]
    IN IF ~JsonWellFormed(dataContent) THEN OnParseError(l1)
       ELSE LET json == JsonParse(dataContent)
                l2 == CaptureUsage(l1, json)
            IN IF json.choices = "absent" THEN OnParseError(l2)
               ELSE IF HasContent(json.content) THEN EmitPartial(l2, req, json.content.text)
               ELSE l2

ProcessLine(l, req, line) ==
    IF IsBlank(line) THEN l
    ELSE IF ~HasDataPrefix(line) THEN l
    ELSE IF IsDone(DataContent(line)) THEN l
    ELSE ProcessData(l, req, DataContent(line))

RECURSIVE ProcessLines_Break(_, _, _)
\* Mutant of ProcessLines: a payload that does not parse ends the loop over
\* the lines of the read.
ProcessLines_Break(l, req, lines) ==
    IF lines = <<>> THEN l
    ELSE IF /\ HasDataPrefix(Head(lines))
            /\ ~IsDone(DataContent(Head(lines)))
            /\ ~JsonWellFormed(DataContent(Head(lines)))
         THEN ProcessLine(l, req, Head(lines))
         ELSE ProcessLines_Break(ProcessLine(l, req, Head(lines)), req, Tail(lines))

RECURSIVE ProcessLines(_, _, _)
\* for (const line of lines)
ProcessLines(l, req, lines) ==
    IF lines = <<>> THEN l
    ELSE ProcessLines(ProcessLine(l, req, Head(lines)), req, Tail(lines))

\* One turn of the read loop on a read that delivered `value`.
ReadStep(l, req, value) ==
    LET parts == Split(l.buffer \o value)
    IN ProcessLines([l EXCEPT !.buffer = HoldBack(parts)], req, CompleteLines(parts))

\* ------------------------------------------- the standalone generator
\* streamChatCompletions (src/src/mistral.ts): its buffer and the JSON
\* values it has yielded.
InitGen == [buffer |-> <<>>, yielded |-> <<>>]

\* Mutant of GenHoldBack: the generator's buffer is cleared after every read.
GenHoldBack_Drop(parts) == <<>>

\* buffer = lines.pop() || ''
GenHoldBack(parts) == parts[Len(parts)]

GenCompleteLines(parts) == SubSeq(parts, 1, Len(parts) - 1)

\* data === '[DONE]'
GenIsDone(d) == d = DoneSentinel

\* The body of the generator's loop over the lines: a payload that parses
\* is yielded, one that does not is logged.
GenProcessLine(g, line) ==
    IF IsBlank(line) THEN g
    ELSE IF HasDataPrefix(line)
         THEN LET d == DataContent(line)
              IN IF GenIsDone(d) THEN g
                 ELSE IF JsonWellFormed(d)
                      THEN [g EXCEPT !.yielded = Append(@, JsonParse(d))]
                      ELSE g
         ELSE g

RECURSIVE GenProcessLines(_, _)
GenProcessLines(g, lines) ==
    IF lines = <<>> THEN g
    ELSE GenProcessLines(GenProcessLine(g, Head(lines)), Tail(lines))

\* One turn of the generator's read loop on a read that delivered `value`.
GenReadStep(g, value) ==
    LET parts == Split(g.buffer \o value)
    IN GenProcessLines([g EXCEPT !.buffer = GenHoldBack(parts)], GenCompleteLines(parts))

\* --------------------------------------------------------- usage recovery
RECURSIVE RescanChunks(_, _)
\* The scan of the retained chunks for the first one that carries usage.
RescanChunks(l, chunks) ==
    IF chunks = <<>> THEN l
    ELSE IF JsonWellFormed(Head(chunks)) /\ CarriesUsage(JsonParse(Head(chunks)))
         THEN [l EXCEPT !.tokenUsage = UsageOf(JsonParse(Head(chunks))),
                        !.tokenUsageFound = TRUE]
         ELSE RescanChunks(l, Tail(chunks))

\* Mutant of EstimateTokens: Math.floor.
EstimateTokens_Floor(n) == n \div 4

\* Math.ceil(fullResponse.length / 4)
EstimateTokens(n) == (n + 3) \div 4

\* Mutant of EstimatedDetails: the currency is always USD.
EstimatedDetails_Usd(req, usage) ==
    [note |-> TRUE, prompt |-> usage.prompt_tokens, completion |-> usage.completion_tokens,
     total |-> usage.total_tokens, estimatedCostCents |-> 0, currency |-> "USD"]

EstimatedDetails(req, usage) ==
    [note |-> TRUE, prompt |-> usage.prompt_tokens, completion |-> usage.completion_tokens,
     total |-> usage.total_tokens, estimatedCostCents |-> 0, currency |-> req.currency]

\* What follows the read loop once the reader reports done; the buffer is
\* not looked at again.
FinishStep(l, req) ==
    LET l1 == IF l.tokenUsageFound THEN l ELSE RescanChunks(l, l.allChunks)
    IN IF ~l1.tokenUsageFound
       THEN LET est == EstimateTokens(Len(Join(l1.responseParts)))
                usage == [prompt_tokens |-> 0, completion_tokens |-> est, total_tokens |-> est]
            IN [l1 EXCEPT !.tokenUsage = usage,
                          !.output = [@ EXCEPT !.ports = @ \cup {"tokenDetails"},
                                               !.tokenDetails = EstimatedDetails(req, usage)]]
       ELSE [l1 EXCEPT !.output = [@ EXCEPT !.ports = @ \cup {"tokenDetails"},
                                            !.tokenDetails = ExactDetails(req, l1.tokenUsage)]]

\* ------------------------------------------------- node data and inputs
\* A value on an input port (a DataValue), or nothing on it.
DataValue(type, value) == [present |-> TRUE, type |-> type, value |-> value]
Undefined == [present |-> FALSE, type |-> "undefined", value |-> 0]

\* ChatMessage.message is a string or a list of parts.
StringMessage(s) == [isString |-> TRUE, parts |-> <<s>>]
PartsMessage(ps) == [isString |-> FALSE, parts |-> ps]
RivetMessage(type, message) == [type |-> type, message |-> message]

\* The node data of create(), with the toggles, the system prompt, the
\* mode, the transport, the model and the currency left open.  Numbers
\* with a fraction are in tenths (temperature 0.5 is 5, topP 1 is 10).
NodeData(um, ut, ux, up, us, sp, mm, st, m, cur) ==
    [model |-> m, useModelInput |-> um,
     temperature |-> 5, useTemperatureInput |-> ut,
     maxTokens |-> 4096, useMaxTokensInput |-> ux,
     topP |-> 10, useTopPInput |-> up,
     systemPrompt |-> sp, useSystemPromptInput |-> us,
     useMessagesInput |-> mm, useStream |-> st, currency |-> cur]

\* getInputDefinitions: the ids of the ports the node declares.
InputDefinitions(d) ==
    (IF d.useModelInput THEN {"model"} ELSE {})
    \cup (IF d.useSystemPromptInput THEN {"systemPrompt"} ELSE {})
    \cup (IF d.useTemperatureInput THEN {"temperature"} ELSE {})
    \cup (IF d.useTopPInput THEN {"top_p"} ELSE {})
    \cup (IF d.useMaxTokensInput THEN {"maxTokens"} ELSE {})
    \cup (IF d.useMessagesInput THEN {"messages"} ELSE {"prompt"})

PortIds == {"model", "systemPrompt", "temperature", "top_p", "maxTokens", "messages", "prompt"}
NoInputs == [p \in PortIds |-> Undefined]

\* inputs[key]: the value on the port of that id, if the port exists.
InputAt(in, key) == IF key \in DOMAIN in THEN in[key] ELSE Undefined

\* rivet.getInputOrData's default toggle key: `use${Key}Input`.
ToggleKey(key) ==
    CASE key = "model" -> "useModelInput"
      [] key = "temperature" -> "useTemperatureInput"
      [] key = "maxTokens" -> "useMaxTokensInput"
      [] key = "topP" -> "useTopPInput"
      [] key = "systemPrompt" -> "useSystemPromptInput"

\* rivet.coerceTypeOptional on a value of the asked type (the only values
\* the model puts on a port): the value itself; undefined stays undefined.
CoerceTypeOptional(dv, type) == IF dv.present /\ dv.type = type THEN dv ELSE Undefined

\* rivet.getInputOrData(data, inputs, key, type) ?? data[key]
GetInputOrData(d, in, key, type) ==
    LET v == CoerceTypeOptional(InputAt(in, key), type)
    IN IF d[ToggleKey(key)] /\ v.present THEN v.value ELSE d[key]

RECURSIVE JoinWith(_, _)
\* Array.prototype.join(sep)
JoinWith(parts, sep) ==
    IF parts = <<>> THEN <<>>
    ELSE IF Len(parts) = 1 THEN Head(parts)
    ELSE Head(parts) \o sep \o JoinWith(Tail(parts), sep)

\* Array.prototype.toString(): join(',')
ArrayToString(parts) == JoinWith(parts, <<",">>)

\* typeof m === 'string' ? m : m.toString()
MessageContent(message) ==
    IF message.isString THEN message.parts[1] ELSE ArrayToString(message.parts)

\* The switch of convertToMistralMessage: any other type is a user's.
ConvertRole(type) ==
    CASE type = "system" -> "system"
      [] type = "user" -> "user"
      [] type = "assistant" -> "assistant"
      [] OTHER -> "user"

ConvertToMistralMessage(rivetMessage) ==
    [role |-> ConvertRole(rivetMessage.type), content |-> MessageContent(rivetMessage.message)]

\* Messages mode's inline map: the type is cast, not switched on.
CastToMistralMessage(msg) ==
    [role |-> msg.type, content |-> MessageContent(msg.message)]

\* createUserMessage on the string of a prompt, as convertToMistralMessage reads it.
UserMessageOf(s) == RivetMessage(CreateUserMessage(s).type, StringMessage(CreateUserMessage(s).message))

\* Mutant of HasSystemPrompt: the prompt is tested without trim().
HasSystemPrompt_Untrimmed(systemPrompt) == systemPrompt # <<>>

\* systemPrompt?.trim() is truthy
HasSystemPrompt(systemPrompt) == Trim(systemPrompt) # <<>>

\* The messages before the mode branch.
SystemMessages(systemPrompt) ==
    IF HasSystemPrompt(systemPrompt)
    THEN <<[role |-> "system", content |-> systemPrompt]>>
    ELSE <<>>

PromptTypes == {"chat-message", "chat-message[]", "string", "string[]"}

\* The prompt-mode branch: the rivet messages of a prompt of a known type.
UserMessages(promptInput) ==
    CASE promptInput.type = "chat-message" -> <<promptInput.value>>
      [] promptInput.type = "chat-message[]" -> promptInput.value
      [] promptInput.type = "string" -> <<UserMessageOf(promptInput.value)>>
      [] promptInput.type = "string[]" ->
            [i \in DOMAIN promptInput.value |-> UserMessageOf(promptInput.value[i])]

\* Mutant of ApiKeyMissing: the credential is never checked.
ApiKeyMissing_Never(key) == FALSE

\* !apiKey
ApiKeyMissing(key) == ~key

\* What process does before it awaits fetch: an error thrown, or the
\* request it sends.
BuildRequest(d, in, key) ==
    LET m == GetInputOrData(d, in, "model", "string")
        t == GetInputOrData(d, in, "temperature", "number")
        x == GetInputOrData(d, in, "maxTokens", "number")
        p == GetInputOrData(d, in, "topP", "number")
        s == GetInputOrData(d, in, "systemPrompt", "string")
        body == [temperature |-> t, max_tokens |-> x, top_p |-> p, stream |-> d.useStream]
        Throw(e) == [error |-> e, model |-> m, messages |-> <<>>, requestBody |-> body]
        Send(ms) == [error |-> "none", model |-> m, messages |-> ms, requestBody |-> body]
    IN IF ApiKeyMissing(key) THEN Throw("Mistral API key not configured")
       ELSE IF d.useMessagesInput
       THEN LET inputMessages == CoerceTypeOptional(InputAt(in, "messages"), "chat-message[]")
            IN IF ~inputMessages.present THEN Throw("Invalid messages input format")
               ELSE Send(SystemMessages(s)
                         \o [i \in DOMAIN inputMessages.value |->
                               CastToMistralMessage(inputMessages.value[i])])
       ELSE LET promptInput == InputAt(in, "prompt")
            IN IF ~promptInput.present THEN Throw("No prompt provided")
               ELSE IF promptInput.type \notin PromptTypes THEN Throw("Invalid prompt format")
               ELSE LET userMessages == UserMessages(promptInput)
                    IN Send(SystemMessages(s)
                            \o [i \in DOMAIN userMessages |->
                                  ConvertToMistralMessage(userMessages[i])])

\* The parsed body of a non-streaming response; `read` is whether
\* response.json() has resolved.
NoJson == [read |-> FALSE, hasChoice |-> FALSE, content |-> NoContent, usage |-> NoUsage]
JsonBody(hasChoice, content, usage) ==
    [read |-> TRUE, hasChoice |-> hasChoice, content |-> content, usage |-> usage]

\* Mutant of Scope: responseParts is one array shared by the invocations.
Scope_Shared(own, other) == [own EXCEPT !.responseParts = other.responseParts]

\* The locals a step of an invocation works on: buffer, responseParts,
\* allChunks, tokenUsageFound, tokenUsage and output are declared inside
\* process, so they are the call's own, whatever another call holds.
Scope(own, other) == own

\* A second invocation: its response, how far it has read, and its own
\* locals.  "none": there is no second invocation.
NoPeer == [stream |-> <<>>, terminated |-> TRUE, pos |-> 0, pc |-> "none", locals |-> InitLocals]

\* context.onPartialOutputs?.(output): every call is handed the one object
\* `output`, so what the holder of an emission reads from it is what
\* `output` holds now.
HandedObject(out) == out

\* ------------------------------------------------------------------ state
VARIABLES
    stream,           \* the kinds of the lines of the response body
    terminated,       \* whether the last line of the body ends with a newline
    messages,         \* the request's message list
    model,            \* the resolved model id
    currency,         \* data.currency
    pos,              \* symbols of the body the reader has delivered
    pc,               \* "streaming": in the read loop; "returned": process returned output
    buffer, responseParts, allChunks, tokenUsageFound, tokenUsage, output,
    emitted,          \* what each call of context.onPartialOutputs was handed
    data,             \* the node data
    inputs,           \* the values on the input ports
    apiKey,           \* whether the plugin configuration holds a mistralApiKey
    requestBody,      \* the sampling parameters of the request sent
    httpRequests,     \* calls of fetch so far
    error,            \* the message of the error process threw, or "none"
    aborted,          \* whether the host's cancellation signal has fired
    json,             \* the body of a non-streaming response, once read
    status,           \* "none": no response yet; "ok" or "error": response.ok
    peer,             \* a second invocation of process running at the same time
    gen               \* streamChatCompletions run on the same reads

vars == <<stream, terminated, messages, model, currency, pos, pc, buffer, responseParts,
          allChunks, tokenUsageFound, tokenUsage, output, emitted,
          data, inputs, apiKey, requestBody, httpRequests, error, aborted, json,
          status, peer, gen>>
callVars == <<data, inputs, apiKey, requestBody, httpRequests, error, json, status, peer, gen>>

Body == Render(stream, terminated)
Req == [messages |-> messages, model |-> model, currency |-> currency]
Locals == [buffer |-> buffer, responseParts |-> responseParts, allChunks |-> allChunks,
           tokenUsageFound |-> tokenUsageFound, tokenUsage |-> tokenUsage,
           output |-> output, emitted |-> emitted]

Streams == UNION {[1..n -> LineKinds] : n \in 0..MaxLines}

\* The requests of the model: a system prompt and a prompt, on a
\* token-priced model.
Requests ==
    {[messages |-> <<[role |-> "system", content |-> TextBrief],
                     [role |-> "user", content |-> TextHello]>>,
      model |-> ModelLarge, currency |-> "USD"]}

\* The state at the top of the read loop: the request was built, the
\* response arrived with a success status, and the locals are fresh.
Init ==
    /\ stream \in Streams
    /\ terminated \in (IF stream = <<>> THEN {TRUE} ELSE BOOLEAN)
    /\ \E r \in Requests :
          messages = r.messages /\ model = r.model /\ currency = r.currency
    /\ pos = 0
    /\ pc = "streaming"
    /\ buffer = InitLocals.buffer
    /\ responseParts = InitLocals.responseParts
    /\ allChunks = InitLocals.allChunks
    /\ tokenUsageFound = InitLocals.tokenUsageFound
    /\ tokenUsage = InitLocals.tokenUsage
    /\ output = InitLocals.output
    /\ emitted = InitLocals.emitted
    /\ data = NodeData(FALSE, FALSE, FALSE, FALSE, FALSE, TextBrief, FALSE, TRUE, model, currency)
    /\ inputs = [NoInputs EXCEPT !.prompt = DataValue("string", TextHello)]
    /\ apiKey = TRUE
    /\ requestBody = BuildRequest(data, inputs, apiKey).requestBody
    /\ httpRequests = 1
    /\ error = "none"
    /\ aborted = FALSE
    /\ json = NoJson
    /\ status = "ok"
    /\ peer = NoPeer
    /\ gen = InitGen

SetLocals(l) ==
    /\ buffer' = l.buffer
    /\ responseParts' = l.responseParts
    /\ allChunks' = l.allChunks
    /\ tokenUsageFound' = l.tokenUsageFound
    /\ tokenUsage' = l.tokenUsage
    /\ output' = l.output
    /\ emitted' = l.emitted

\* reader.read() resolves with the next k symbols of the body.
ReadChunk(k) ==
    /\ pc = "streaming"
    /\ k >= 1
    /\ pos + k <= Len(Body)
    /\ pos' = pos + k
    /\ SetLocals(ReadStep(Locals, Req, SubSeq(Body, pos + 1, pos + k)))
    /\ UNCHANGED <<stream, terminated, messages, model, currency, pc, aborted>>
    /\ UNCHANGED callVars

\* reader.read() resolves with done: usage recovery, then return output.
ReadDone ==
    /\ pc = "streaming"
    /\ pos = Len(Body)
    /\ pc' = "returned"
    /\ SetLocals(FinishStep(Locals, Req))
    /\ UNCHANGED <<stream, terminated, messages, model, currency, pos, aborted>>
    /\ UNCHANGED callVars

Next ==
    \/ \E k \in (1..MaxRead) \cup {Len(Body) - pos} : ReadChunk(k)
    \/ ReadDone

Spec == Init /\ [][Next]_vars


\* ------------------------------------------- the request, from any inputs
MsgUserHello == RivetMessage("user", StringMessage(TextHello))
MsgSystemBrief == RivetMessage("system", StringMessage(TextBrief))
MsgAssistantParts == RivetMessage("assistant", PartsMessage(<<TextHi, TextHello>>))
MsgFunction == RivetMessage("function", StringMessage(TextHi))

Prompts ==
    {DataValue("string", TextHello),
     DataValue("string[]", <<TextHello, TextHi>>),
     DataValue("chat-message", MsgUserHello),
     DataValue("chat-message", MsgAssistantParts),
     DataValue("chat-message[]", <<MsgSystemBrief, MsgAssistantParts, MsgFunction>>),
     DataValue("number", 7)}

MessageLists ==
    {DataValue("chat-message[]", <<>>),
     DataValue("chat-message[]", <<MsgUserHello>>),
     DataValue("chat-message[]", <<MsgSystemBrief, MsgAssistantParts, MsgFunction>>)}

DataConfigs ==
    {NodeData(um, ut, ux, up, us, sp, mm, TRUE, ModelLarge, "USD") :
        um \in BOOLEAN, ut \in BOOLEAN, ux \in BOOLEAN, up \in BOOLEAN,
        us \in BOOLEAN, mm \in BOOLEAN, sp \in {<<>>, TextBrief}}

\* A value arrives only on a port the node declares.
PortValues(d, port, values) ==
    {Undefined} \cup (IF port \in InputDefinitions(d) THEN values ELSE {})

InputsOf(d) ==
    [model : PortValues(d, "model", {DataValue("string", ModelEmbed)}),
     systemPrompt : PortValues(d, "systemPrompt", {DataValue("string", <<" ">>), DataValue("string", TextHi)}),
     temperature : PortValues(d, "temperature", {DataValue("number", 9)}),
     top_p : PortValues(d, "top_p", {DataValue("number", 3)}),
     maxTokens : PortValues(d, "maxTokens", {DataValue("number", 100)}),
     messages : PortValues(d, "messages", MessageLists),
     prompt : PortValues(d, "prompt", Prompts)]

NoRequestBody == [temperature |-> 0, max_tokens |-> 0, top_p |-> 0, stream |-> FALSE]

\* The state when process is called: nothing resolved, nothing sent.
Called ==
    /\ currency = data.currency
    /\ model = data.model
    /\ messages = <<>>
    /\ requestBody = NoRequestBody
    /\ httpRequests = 0
    /\ error = "none"
    /\ aborted = FALSE
    /\ json = NoJson
    /\ status = "none"
    /\ peer = NoPeer
    /\ gen = InitGen
    /\ stream = <<>>
    /\ terminated = TRUE
    /\ pos = 0
    /\ pc = "start"
    /\ buffer = InitLocals.buffer
    /\ responseParts = InitLocals.responseParts
    /\ allChunks = InitLocals.allChunks
    /\ tokenUsageFound = InitLocals.tokenUsageFound
    /\ tokenUsage = InitLocals.tokenUsage
    /\ output = InitLocals.output
    /\ emitted = InitLocals.emitted

InitRequest ==
    /\ data \in DataConfigs
    /\ inputs \in InputsOf(data)
    /\ apiKey \in BOOLEAN
    /\ Called

\* process up to its first await: the checks, the resolution of the
\* fields, the message list, and the call of fetch.
StartProcess ==
    /\ pc = "start"
    /\ LET r == BuildRequest(data, inputs, apiKey)
       IN /\ model' = r.model
          /\ messages' = r.messages
          /\ requestBody' = r.requestBody
          /\ error' = r.error
          /\ pc' = IF r.error = "none" THEN "fetching" ELSE "failed"
          /\ httpRequests' = IF r.error = "none" THEN httpRequests + 1 ELSE httpRequests
    /\ UNCHANGED <<stream, terminated, currency, pos, buffer, responseParts, allChunks,
                   tokenUsageFound, tokenUsage, output, emitted, data, inputs, apiKey,
                   aborted, json, status, peer, gen>>

NextRequest == StartProcess

SpecRequest == InitRequest /\ [][NextRequest]_vars


\* ----------------------------------------------- the non-streaming path
\* The cost of the non-streaming path: the OCR model is priced per page
\* and gets the placeholder 0.
NonStreamingCost(m, cur, usage) ==
    IF m = ModelOcr THEN 0 ELSE TokenCostCents(m, cur, usage)

\* Mutant of NonStreamingOutput: the assistant message is not appended to
\* the messages output and the details are marked as an estimate.
NonStreamingOutput_Estimated(req, body) ==
    [ports |-> {"response", "message", "messages", "tokenDetails"},
     response |-> body.content.text,
     message |-> CreateAssistantMessage(body.content.text),
     messages |-> [i \in 1..Len(req.messages) |-> ToChatMessage(req.messages[i])],
     tokenDetails |-> EstimatedDetails(req, UsageOf(body))]

\* The ports written from the parsed body.  A content that is undefined
\* (no choice, or a choice without one) is written as the empty text;
\* `json` keeps whether it was there.
NonStreamingOutput(req, body) ==
    LET content == IF body.hasChoice /\ body.content.present THEN body.content.text ELSE <<>>
        assistantMessage == CreateAssistantMessage(content)
    IN [ports |-> {"response", "message", "messages", "tokenDetails"},
        response |-> content,
        message |-> assistantMessage,
        messages |-> [i \in 1..Len(req.messages) |-> ToChatMessage(req.messages[i])]
                        \o <<assistantMessage>>,
        tokenDetails |-> [note |-> FALSE,
                          prompt |-> body.usage.prompt_tokens,
                          completion |-> body.usage.completion_tokens,
                          total |-> body.usage.total_tokens,
                          estimatedCostCents |-> NonStreamingCost(req.model, req.currency, body.usage),
                          currency |-> req.currency]]

\* ------------------------------------------------- the whole invocation
ProcessConfigs ==
    {NodeData(FALSE, FALSE, FALSE, FALSE, FALSE, TextBrief, FALSE, st, m, cur) :
        st \in BOOLEAN, m \in KnownModels \cup {ModelUnknown}, cur \in Currencies}

\* The bodies a streaming response may have.  The usage of a million
\* tokens is left out for the OCR model, whose parsed price (10001 a
\* million) would take the cost beyond 32-bit integers.
ProcessStreams(m) ==
    {<<>>, <<"done">>, <<"malformed", "usageOnly">>, <<"hi", "there", "done">>,
     <<"hiUsage", "there", "done">>, <<"hi", "usageOnly">>}
    \cup (IF m = ModelOcr THEN {}
          ELSE {<<"hiMillion", "done">>, <<"hiUsage", "hiMillion", "there">>,
                <<"hiMillion", "usageOnly", "hi">>})

\* The bodies a non-streaming response may have: with a content, with an
\* empty `choices`, without a `usage` member.
JsonBodies(m) ==
    {JsonBody(TRUE, Content(TextHi), Usage(5, 2, 7)),
     JsonBody(TRUE, Content(TextHi), Usage(300, 200, 500)),
     JsonBody(FALSE, NoContent, Usage(5, 2, 7)),
     JsonBody(TRUE, Content(TextHi), NoUsage)}
    \cup (IF m = ModelOcr THEN {}
          ELSE {JsonBody(TRUE, Content(TextHi), Usage(1000000, 0, 1000000))})

InitProcess ==
    /\ data \in ProcessConfigs
    /\ inputs = [NoInputs EXCEPT !.prompt = DataValue("string", TextHello)]
    /\ apiKey = TRUE
    /\ Called

\* Mutant of ResponseNotOk: the status is not tested and the body is read.
ResponseNotOk_Decoded ==
    /\ pc = "fetching"
    /\ status' = "error"
    /\ pc' = IF data.useStream THEN "streaming" ELSE "awaitingJson"
    /\ stream' = IF data.useStream THEN <<"hi">> ELSE stream
    /\ UNCHANGED <<terminated, messages, model, currency, pos, buffer, responseParts,
                   allChunks, tokenUsageFound, tokenUsage, output, emitted, data, inputs,
                   apiKey, requestBody, httpRequests, error, aborted, json, peer, gen>>

\* fetch resolves with a status that is not a success: process throws.
ResponseNotOk ==
    /\ pc = "fetching"
    /\ status' = "error"
    /\ pc' = "failed"
    /\ error' = "Mistral API error"
    /\ UNCHANGED <<stream, terminated, messages, model, currency, pos, buffer, responseParts,
                   allChunks, tokenUsageFound, tokenUsage, output, emitted, data, inputs,
                   apiKey, requestBody, httpRequests, aborted, json, peer, gen>>

\* fetch resolves with a success status and no body to read.
NoResponseBody ==
    /\ pc = "fetching"
    /\ data.useStream
    /\ status' = "ok"
    /\ pc' = "failed"
    /\ error' = "No response body"
    /\ UNCHANGED <<stream, terminated, messages, model, currency, pos, buffer, responseParts,
                   allChunks, tokenUsageFound, tokenUsage, output, emitted, data, inputs,
                   apiKey, requestBody, httpRequests, aborted, json, peer, gen>>

\* fetch resolves with a success status: the read loop, or the wait for
\* response.json().
ResponseOk ==
    /\ pc = "fetching"
    /\ status' = "ok"
    /\ IF data.useStream
       THEN /\ pc' = "streaming"
            /\ stream' \in ProcessStreams(model)
            /\ terminated' \in (IF stream' = <<>> THEN {TRUE} ELSE BOOLEAN)
       ELSE /\ pc' = "awaitingJson"
            /\ UNCHANGED <<stream, terminated>>
    /\ UNCHANGED <<messages, model, currency, pos, buffer, responseParts, allChunks,
                   tokenUsageFound, tokenUsage, output, emitted, data, inputs, apiKey,
                   requestBody, httpRequests, error, aborted, json, peer, gen>>

\* Mutant of JsonRead: a body without `usage` makes process send the
\* request again.
JsonRead_Retry ==
    /\ pc = "awaitingJson"
    /\ \E body \in JsonBodies(model) :
          /\ json' = body
          /\ IF body.usage.present
             THEN /\ output' = NonStreamingOutput(Req, body)
                  /\ pc' = "returned"
                  /\ UNCHANGED httpRequests
             ELSE /\ pc' = "fetching"
                  /\ httpRequests' = httpRequests + 1
                  /\ UNCHANGED output
    /\ UNCHANGED <<stream, terminated, messages, model, currency, pos, buffer, responseParts,
                   allChunks, tokenUsageFound, tokenUsage, emitted, data, inputs, apiKey,
                   requestBody, error, aborted, status, peer, gen>>

\* response.json() resolves: the outputs are written and returned; reading
\* a member of an absent `usage` throws.
JsonRead ==
    /\ pc = "awaitingJson"
    /\ \E body \in JsonBodies(model) :
          /\ json' = body
          /\ IF body.usage.present
             THEN /\ output' = NonStreamingOutput(Req, body)
                  /\ pc' = "returned"
                  /\ UNCHANGED error
             ELSE /\ pc' = "failed"
                  /\ error' = "TypeError"
                  /\ UNCHANGED output
    /\ UNCHANGED <<stream, terminated, messages, model, currency, pos, buffer, responseParts,
                   allChunks, tokenUsageFound, tokenUsage, emitted, data, inputs, apiKey,
                   requestBody, httpRequests, aborted, status, peer, gen>>

\* The host's cancellation signal fires while process awaits; process
\* holds no reference to it.
Abort ==
    /\ pc \in {"fetching", "streaming", "awaitingJson"}
    /\ ~aborted
    /\ aborted' = TRUE
    /\ UNCHANGED <<stream, terminated, messages, model, currency, pos, pc, buffer,
                   responseParts, allChunks, tokenUsageFound, tokenUsage, output, emitted>>
    /\ UNCHANGED callVars

NextProcess ==
    \/ StartProcess
    \/ ResponseNotOk
    \/ NoResponseBody
    \/ ResponseOk
    \/ \E k \in (1..MaxRead) \cup {Len(Body) - pos} : ReadChunk(k)
    \/ ReadDone
    \/ JsonRead
    \/ Abort

SpecProcess == InitProcess /\ [][NextProcess]_vars


\* ------------------------------------------- the two decoders side by side
\* A read delivers the same k symbols to the read loop of process and to
\* the read loop of streamChatCompletions.
ReadBoth(k) ==
    /\ pc = "streaming"
    /\ k >= 1
    /\ pos + k <= Len(Body)
    /\ pos' = pos + k
    /\ SetLocals(ReadStep(Locals, Req, SubSeq(Body, pos + 1, pos + k)))
    /\ gen' = GenReadStep(gen, SubSeq(Body, pos + 1, pos + k))
    /\ UNCHANGED <<stream, terminated, messages, model, currency, pc, aborted, data, inputs,
                   apiKey, requestBody, httpRequests, error, json, status, peer>>

NextDecoders ==
    \/ \E k \in (1..MaxRead) \cup {Len(Body) - pos} : ReadBoth(k)
    \/ ReadDone

SpecDecoders == Init /\ [][NextDecoders]_vars

\* ------------------------------------------------ two invocations at once
PairStreams == {<<"hi">>, <<"there", "hiUsage">>, <<"emptyZero", "hi", "there">>}

PeerBody == Render(peer.stream, peer.terminated)

InitPair ==
    /\ stream \in PairStreams
    /\ terminated = TRUE
    /\ \E r \in Requests :
          messages = r.messages /\ model = r.model /\ currency = r.currency
    /\ pos = 0
    /\ pc = "streaming"
    /\ buffer = InitLocals.buffer
    /\ responseParts = InitLocals.responseParts
    /\ allChunks = InitLocals.allChunks
    /\ tokenUsageFound = InitLocals.tokenUsageFound
    /\ tokenUsage = InitLocals.tokenUsage
    /\ output = InitLocals.output
    /\ emitted = InitLocals.emitted
    /\ data = NodeData(FALSE, FALSE, FALSE, FALSE, FALSE, TextBrief, FALSE, TRUE, model, currency)
    /\ inputs = [NoInputs EXCEPT !.prompt = DataValue("string", TextHello)]
    /\ apiKey = TRUE
    /\ requestBody = BuildRequest(data, inputs, apiKey).requestBody
    /\ httpRequests = 1
    /\ error = "none"
    /\ aborted = FALSE
    /\ json = NoJson
    /\ status = "ok"
    /\ gen = InitGen
    /\ \E ps \in PairStreams :
          peer = [stream |-> ps, terminated |-> TRUE, pos |-> 0, pc |-> "streaming",
                  locals |-> InitLocals]

\* A read of the second invocation resolves with its next k symbols.
PeerRead(k) ==
    /\ peer.pc = "streaming"
    /\ k >= 1
    /\ peer.pos + k <= Len(PeerBody)
    /\ peer' = [peer EXCEPT
                  !.pos = @ + k,
                  !.locals = ReadStep(Scope(peer.locals, Locals), Req,
                                      SubSeq(PeerBody, peer.pos + 1, peer.pos + k))]
    /\ UNCHANGED <<stream, terminated, messages, model, currency, pos, pc, buffer,
                   responseParts, allChunks, tokenUsageFound, tokenUsage, output, emitted,
                   data, inputs, apiKey, requestBody, httpRequests, error, aborted, json,
                   status, gen>>

\* The second invocation's reader reports done.
PeerDone ==
    /\ peer.pc = "streaming"
    /\ peer.pos = Len(PeerBody)
    /\ peer' = [peer EXCEPT !.pc = "returned",
                            !.locals = FinishStep(Scope(peer.locals, Locals), Req)]
    /\ UNCHANGED <<stream, terminated, messages, model, currency, pos, pc, buffer,
                   responseParts, allChunks, tokenUsageFound, tokenUsage, output, emitted,
                   data, inputs, apiKey, requestBody, httpRequests, error, aborted, json,
                   status, gen>>

NextPair ==
    \/ \E k \in (1..MaxRead) \cup {Len(Body) - pos} : ReadChunk(k)
    \/ ReadDone
    \/ \E k \in (1..MaxRead) \cup {Len(PeerBody) - peer.pos} : PeerRead(k)
    \/ PeerDone

SpecPair == InitPair /\ [][NextPair]_vars

\* ============================================================== claims
\* What the body holds, read off the line kinds (not off the decoder).
ChatRoles == {"system", "user", "assistant"}
InsignificantKinds == {"blank", "noprefix", "done"}
PayloadKinds == {"hi", "there", "malformed", "usageOnly", "emptyZero", "hiUsage", "hiMillion"}
ContentKinds == {"hi", "there", "hiUsage", "hiMillion"}
UsageKinds == {"usageOnly", "emptyZero", "hiUsage", "hiMillion"}
NonzeroUsageKinds == {"usageOnly", "hiUsage", "hiMillion"}

KindDelta(k) == IF k = "there" THEN TextThere ELSE TextHi
KindUsage(k) == IF k = "emptyZero" THEN ZeroUsage
                ELSE IF k = "hiMillion"
                THEN [prompt_tokens |-> 1000000, completion_tokens |-> 0, total_tokens |-> 1000000]
                ELSE [prompt_tokens |-> 5, completion_tokens |-> 2, total_tokens |-> 7]

IsContentKind(k) == k \in ContentKinds
IsUsageKind(k) == k \in UsageKinds
IsPayloadKind(k) == k \in PayloadKinds
IsWellFormedKind(k) == k # "malformed"

RECURSIVE ConcatAll(_)
\* d1 ++ ... ++ dn
ConcatAll(ds) == IF ds = <<>> THEN <<>> ELSE ConcatAll(SubSeq(ds, 1, Len(ds) - 1)) \o ds[Len(ds)]

\* The content deltas of the lines `kinds`, in order.
DeltasOf(kinds) ==
    LET c == SelectSeq(kinds, IsContentKind)
    IN [i \in 1..Len(c) |-> KindDelta(c[i])]

\* The lines of the body that end with a newline, and those among them that
\* the reader has delivered in full (newline included) after p symbols.
TerminatedLines == IF terminated THEN stream ELSE SubSeq(stream, 1, Len(stream) - 1)
ConsumedAt(p) == LET b == Body IN Cardinality({i \in 1..p : b[i] = NL})
Consumed == SubSeq(stream, 1, ConsumedAt(pos))

IsPrefixOf(a, b) == Len(a) <= Len(b) /\ SubSeq(b, 1, Len(a)) = a

\* C1: the response texts of the emissions of one invocation grow strictly:
\* every emission's text is the text of the emission before it (the empty
\* text for the first) followed by the non-empty delta of the chunk that
\* caused it, and no emission carries less text than an earlier one.
C1_EmissionsGrow ==
    /\ \A i \in 1..Len(emitted) :
          LET prev == IF i = 1 THEN <<>> ELSE emitted[i - 1].response
              delta == DeltasOf(stream)[i]
          IN /\ "response" \in emitted[i].ports
             /\ delta # <<>>
             /\ emitted[i].response = prev \o delta
             /\ Len(emitted[i].response) > Len(prev)
    /\ \A i, j \in 1..Len(emitted) :
          i < j => /\ Len(emitted[i].response) < Len(emitted[j].response)
                   /\ IsPrefixOf(emitted[i].response, emitted[j].response)

C1_Witness ==
    /\ Len(emitted) = 3
    /\ emitted[1].response = TextHi
    /\ emitted[2].response = TextHi \o TextThere
    /\ emitted[3].response = TextHi \o TextThere \o TextHi

\* C2: the message lists of all emissions of one invocation have the same
\* length and agree at every position but the last; the last message is the
\* assistant message holding that emission's response text.
C2_MessagesPrefixStable ==
    \A i, j \in 1..Len(emitted) :
       LET mi == emitted[i].messages
           mj == emitted[j].messages
       IN /\ "messages" \in emitted[i].ports
          /\ Len(mi) = Len(mj)
          /\ Len(mi) = Len(messages) + 1
          /\ \A q \in 1..(Len(mi) - 1) : mi[q] = mj[q]
          /\ mi[Len(mi)] = [type |-> "assistant", message |-> emitted[i].response]

C2_Witness ==
    /\ Len(emitted) >= 2
    /\ Len(messages) = 2
    /\ emitted[1].messages[3].message # emitted[2].messages[3].message

\* C3: for a body whose data lines carry the non-empty deltas d1..dn (n >= 1)
\* and that ends with `data: [DONE]`, process retains and emits exactly n
\* chunks, returns the text d1 ++ ... ++ dn, and returns as message list the
\* request messages in order followed by one assistant message with that text.
C3_Applies ==
    /\ terminated
    /\ Len(stream) >= 2
    /\ stream[Len(stream)] = "done"
    /\ \A i \in 1..(Len(stream) - 1) : stream[i] \in ContentKinds \cup {"blank"}
    /\ \E i \in 1..(Len(stream) - 1) : stream[i] \in ContentKinds

C3_FinalText ==
    (pc = "returned" /\ C3_Applies) =>
       LET ds == DeltasOf(stream)
           n == Len(ds)
           out == output.messages
       IN /\ Len(allChunks) = n
          /\ Len(emitted) = n
          /\ {"response", "message", "messages"} \subseteq output.ports
          /\ output.response = ConcatAll(ds)
          /\ output.message = [type |-> "assistant", message |-> ConcatAll(ds)]
          /\ Len(out) = Len(messages) + 1
          /\ \A i \in 1..Len(messages) :
                /\ out[i].message = messages[i].content
                /\ messages[i].role \in ChatRoles => out[i].type = messages[i].role
          /\ out[Len(out)] = [type |-> "assistant", message |-> ConcatAll(ds)]

C3_Witness ==
    /\ pc = "returned"
    /\ stream = <<"hi", "there", "done">>
    /\ terminated
    /\ output.response = <<"H", "i", " ", "t", "h", "e", "r", "e">>
    /\ Len(output.messages) = 3

\* C4: a `data: ` line whose payload does not parse is skipped and nothing
\* else: at every point of the decoding, what was emitted, the response text
\* and the output are those of decoding the same lines with the malformed
\* ones removed, and so is the output process returns.
C4_CleanRun ==
    ReadStep(InitLocals, Req, Render(SelectSeq(Consumed, IsWellFormedKind), TRUE))

C4_MalformedSkipped ==
    LET clean == C4_CleanRun
    IN /\ pc = "streaming" =>
             /\ emitted = clean.emitted
             /\ responseParts = clean.responseParts
             /\ output = clean.output
             /\ tokenUsageFound = clean.tokenUsageFound
             /\ tokenUsage = clean.tokenUsage
       /\ pc = "returned" =>
             /\ emitted = clean.emitted
             /\ output = FinishStep(clean, Req).output

C4_Witness ==
    /\ pc = "returned"
    /\ stream = <<"hi", "malformed", "there">>
    /\ terminated
    /\ Len(allChunks) = 3
    /\ output.response = TextHi \o TextThere

\* C5: the decoder is line-buffered: whatever reads the body arrived in, the
\* held-back text, the retained payloads, the emissions, the usage and the
\* output are those of one read that delivers the same text at once, and
\* the returned output is that of the whole body read at once.
C5_SplitIndependent ==
    /\ pc = "streaming" => Locals = ReadStep(InitLocals, Req, SubSeq(Body, 1, pos))
    /\ pc = "returned" => Locals = FinishStep(ReadStep(InitLocals, Req, Body), Req)

C5_Witness ==
    /\ pc = "streaming"
    /\ Len(emitted) = 1
    /\ buffer = DataPrefix \o <<FragOpen>>
    /\ pos < Len(Body)

\* C6: text left in the buffer at end of input is discarded: when the last
\* line has no newline, the retained payloads, the emissions, the response
\* text and the usage are those of the lines before it alone.
C6_TailDiscarded ==
    (pc = "returned" /\ ~terminated) =>
       LET before == SubSeq(stream, 1, Len(stream) - 1)
       IN /\ Len(allChunks) = Len(SelectSeq(before, IsPayloadKind))
          /\ Len(emitted) = Len(DeltasOf(before))
          /\ responseParts = DeltasOf(before)
          /\ ("response" \in output.ports) = (DeltasOf(before) # <<>>)
          /\ output.tokenDetails.note = (\A i \in 1..Len(before) : before[i] \notin NonzeroUsageKinds)

C6_Witness ==
    /\ pc = "returned"
    /\ ~terminated
    /\ stream = <<"hi", "hiUsage">>
    /\ output.response = TextHi
    /\ output.tokenDetails.note
    /\ pos = Len(Body)

\* C7: blank lines, lines without the `data: ` prefix and the `data: [DONE]`
\* line do nothing: a read that completes only such lines leaves the
\* response parts, the retained chunks, the usage, the output and the
\* emissions as they were.
C7_InsignificantInert ==
    [][(pc = "streaming" /\ pos' > pos /\
        \A i \in (ConsumedAt(pos) + 1)..ConsumedAt(pos') : stream[i] \in InsignificantKinds)
       => UNCHANGED <<responseParts, allChunks, tokenUsageFound, tokenUsage, output, emitted>>]_vars

C7_Witness ==
    /\ pc = "streaming"
    /\ stream = <<"blank", "noprefix", "done">>
    /\ ConsumedAt(pos) = 3
    /\ allChunks = <<>>
    /\ emitted = <<>>
    /\ output = EmptyOutput

\* C8: when no chunk of the stream carries a usage record, the returned
\* tokenDetails carries the estimate note, its completion count is the
\* length of the response text divided by 4 and rounded up, its prompt
\* count is 0, its total is the completion count and its cost is 0.
C8_Estimate ==
    (pc = "returned" /\ \A i \in 1..Len(TerminatedLines) : TerminatedLines[i] \notin UsageKinds) =>
       LET td == output.tokenDetails
           n == IF "response" \in output.ports THEN Len(output.response) ELSE 0
       IN /\ "tokenDetails" \in output.ports
          /\ td.note
          /\ td.completion * 4 >= n
          /\ (td.completion - 1) * 4 < n
          /\ td.prompt = 0
          /\ td.total = td.completion
          /\ td.estimatedCostCents = 0
          /\ td.currency = currency

C8_Witness ==
    /\ pc = "returned"
    /\ stream = <<"hi", "there", "hi">>
    /\ terminated
    /\ Len(output.response) = 10
    /\ output.tokenDetails.note
    /\ output.tokenDetails.completion = 3

\* C9: when exactly one chunk of the stream carries a usage record, whatever
\* its position and its counts (a total of 0 included), the returned
\* tokenDetails reports that record's counts and is not marked an estimate.
C9_OneUsageVerbatim ==
    (pc = "returned" /\ Len(SelectSeq(TerminatedLines, IsUsageKind)) = 1) =>
       LET u == KindUsage(SelectSeq(TerminatedLines, IsUsageKind)[1])
           td == output.tokenDetails
       IN /\ ~td.note
          /\ td.prompt = u.prompt_tokens
          /\ td.completion = u.completion_tokens
          /\ td.total = u.total_tokens

\* C10: one partial output per chunk with a non-empty delta and none
\* otherwise: the emissions are as many as the content chunks decoded so
\* far, and a chunk with usage but no delta (with or without `choices`)
\* or with an empty delta changes at most the usage record.
C10_ExpectedUsage ==
    LET us == SelectSeq(Consumed, LAMBDA k : k \in NonzeroUsageKinds)
    IN IF us = <<>> THEN ZeroUsage ELSE KindUsage(us[Len(us)])

C10_OnePerContentChunk ==
    /\ Len(emitted) = Len(SelectSeq(Consumed, IsContentKind))
    /\ pc = "streaming" =>
          /\ Len(responseParts) = Len(emitted)
          /\ tokenUsageFound = (\E i \in 1..Len(Consumed) : Consumed[i] \in NonzeroUsageKinds)
          /\ tokenUsage = C10_ExpectedUsage
          /\ emitted # <<>> => output = emitted[Len(emitted)]
          /\ emitted = <<>> => output = EmptyOutput

C10_Witness ==
    /\ pc = "streaming"
    /\ stream = <<"hi", "usageOnly", "emptyZero">>
    /\ ConsumedAt(pos) = 3
    /\ Len(emitted) = 1
    /\ tokenUsageFound
    /\ "tokenDetails" \notin output.ports

\* ------------------------------------------------- claims on the request
\* What the claims expect of a field: the value on the port that
\* getInputDefinitions declares for it when the toggle is on and a value
\* arrived there, the stored default otherwise.
ExpectedField(field, toggle, port) ==
    IF data[toggle] /\ inputs[port].present THEN inputs[port].value ELSE data[field]
ExpectedSystemPrompt == ExpectedField("systemPrompt", "useSystemPromptInput", "systemPrompt")
NonBlank(t) == \E i \in 1..Len(t) : t[i] \notin Whitespace
Sent == pc = "fetching"

\* The chat messages or strings on the mode's input port, as a list.
InputItems ==
    LET v == IF data.useMessagesInput THEN inputs.messages ELSE inputs.prompt
    IN IF v.type \in {"chat-message[]", "string[]"} THEN v.value ELSE <<v.value>>
InputIsStrings == ~data.useMessagesInput /\ inputs.prompt.type \in {"string", "string[]"}
InputIsChatMessages ==
    IF data.useMessagesInput THEN inputs.messages.present
    ELSE inputs.prompt.type \in {"chat-message", "chat-message[]"}
ExpectedRole(type) == IF type \in ChatRoles THEN type ELSE "user"

\* C13: for each of model, temperature, maxTokens, topP and systemPrompt,
\* the request that is sent carries the value on the field's declared
\* port when the toggle is on and a value arrived, else the stored default.
C13_InputOverDefault ==
    Sent =>
        /\ model = ExpectedField("model", "useModelInput", "model")
        /\ requestBody.temperature = ExpectedField("temperature", "useTemperatureInput", "temperature")
        /\ requestBody.max_tokens = ExpectedField("maxTokens", "useMaxTokensInput", "maxTokens")
        /\ requestBody.top_p = ExpectedField("topP", "useTopPInput", "top_p")
        /\ LET sp == ExpectedSystemPrompt
           IN NonBlank(sp) =>
                 messages # <<>> /\ messages[1] = [role |-> "system", content |-> sp]

\* C14: in messages mode the request holds exactly the input messages, in
\* order, with no system message added in front.
C14_MessagesVerbatim ==
    (Sent /\ data.useMessagesInput) =>
        LET in == inputs.messages.value
        IN /\ Len(messages) = Len(in)
           /\ \A i \in 1..Len(in) :
                 /\ messages[i].role = in[i].type
                 /\ in[i].message.isString => messages[i].content = in[i].message.parts[1]

\* C15: in prompt mode each accepted shape (a chat message, a list of
\* them, a string, a list of strings) gives as many messages, in the same
\* order, a string being a user message of that text; a system prompt
\* that is non-empty after trimming is put in front as one system
\* message, and nothing else is added.
C15_PromptNormalised ==
    (Sent /\ ~data.useMessagesInput) =>
        LET items == InputItems
            sp == ExpectedSystemPrompt
            pre == IF NonBlank(sp) THEN 1 ELSE 0
        IN /\ Len(messages) = pre + Len(items)
           /\ pre = 1 => messages[1] = [role |-> "system", content |-> sp]
           /\ \A i \in 1..Len(items) :
                 IF InputIsStrings
                 THEN messages[pre + i] = [role |-> "user", content |-> items[i]]
                 ELSE /\ messages[pre + i].role = ExpectedRole(items[i].type)
                      /\ items[i].message.isString
                            => messages[pre + i].content = items[i].message.parts[1]

\* The prompt "hello" behind a system prompt: two messages, the last the
\* user's "hello".
C15_Witness ==
    /\ Sent
    /\ ~data.useMessagesInput
    /\ inputs.prompt.type = "string"
    /\ Len(messages) = 2
    /\ messages[1].role = "system"
    /\ messages[2] = [role |-> "user", content |-> TextHello]

\* C16: N chat messages, on the prompt path and on the messages path,
\* give N wire messages in order (behind at most the system prompt's),
\* each role one of system, user, assistant, any other tag sent as user.
C16_RolesTotal ==
    (Sent /\ InputIsChatMessages) =>
        LET items == InputItems
            k == Len(messages) - Len(items)
        IN /\ k \in {0, 1}
           /\ \A i \in 1..Len(messages) : messages[i].role \in ChatRoles
           /\ \A i \in 1..Len(items) : messages[k + i].role = ExpectedRole(items[i].type)

\* C17: a chat message whose text is a list of segments is sent with the
\* segments joined by a single space, on both paths.
C17_SegmentsSpaced ==
    (Sent /\ InputIsChatMessages) =>
        LET items == InputItems
            k == Len(messages) - Len(items)
        IN \A i \in 1..Len(items) :
              ~items[i].message.isString
                 => messages[k + i].content = JoinWith(items[i].message.parts, <<" ">>)

\* C18: without a credential, without a prompt in prompt mode, or without
\* a list that coerces in messages mode, process ends in an error, no
\* request was sent and no partial output was emitted.
C18_FailsBeforeRequest ==
    (/\ pc # "start"
     /\ \/ ~apiKey
        \/ ~data.useMessagesInput /\ ~inputs.prompt.present
        \/ data.useMessagesInput /\ ~inputs.messages.present)
    => /\ pc = "failed"
       /\ error # "none"
       /\ httpRequests = 0
       /\ emitted = <<>>

C18_Witness ==
    /\ pc = "failed"
    /\ apiKey
    /\ ~data.useMessagesInput
    /\ ~inputs.prompt.present
    /\ error = "No prompt provided"
    /\ httpRequests = 0

\* ---------------------------------------------- claims on the invocation
\* C11: an invocation never returns with no content: a stream that ended
\* without one content-bearing chunk, or a non-streaming body without a
\* content, ends in an error instead.
C11_EmptyResponseFails ==
    pc = "returned" =>
        IF data.useStream
        THEN responseParts # <<>>
        ELSE json.hasChoice /\ json.content.present /\ json.content.text # <<>>

\* C12: once the cancellation signal has fired, no chunk is processed, no
\* partial output is emitted and process does not return output.
C12_CancelStops ==
    [][aborted => (UNCHANGED <<allChunks, emitted>> /\ pc' # "returned")]_vars

\* The tokenDetails values that callers have seen: in the partial outputs
\* and in the output returned.
SeenDetails ==
    {emitted[i].tokenDetails : i \in {j \in 1..Len(emitted) : "tokenDetails" \in emitted[j].ports}}
    \cup (IF pc = "returned" /\ "tokenDetails" \in output.ports THEN {output.tokenDetails} ELSE {})

\* C19: for mistral-ocr-latest every tokenDetails, partial or final,
\* streaming or not, reports estimatedCostCents 0.
C19_OcrCostZero ==
    model = ModelOcr => \A d \in SeenDetails : d.estimatedCostCents = 0

\* The prices of the token-priced models of the table, per million tokens,
\* in 1/100 of the currency unit (no completion price: 0).
TokenPricedModels == {ModelLarge, ModelEmbed}
ExpectedPrice(m, kind, cur) ==
    CASE m = ModelLarge /\ kind = "prompt" -> IF cur = "USD" THEN 200 ELSE 180
      [] m = ModelLarge /\ kind = "completion" -> IF cur = "USD" THEN 600 ELSE 540
      [] m = ModelEmbed /\ kind = "prompt" -> IF cur = "USD" THEN 10 ELSE 9
      [] OTHER -> 0

\* C20: on a token-priced model every tokenDetails that is not an
\* estimate, on the partial, the final streaming and the non-streaming
\* path, reports ((prompt / 1e6) * pp + (completion / 1e6) * cp) * 100
\* cents rounded to 4 decimals: in units of 1/10000 cent, the integer
\* nearest to (prompt * pp + completion * cp) / 100 with the prices in
\* hundredths; a million prompt tokens at 2.0 USD are 200 cents.
C20_TokenCost ==
    model \in TokenPricedModels =>
        \A d \in SeenDetails :
            ~d.note =>
               LET exact == d.prompt * ExpectedPrice(model, "prompt", d.currency)
                            + d.completion * ExpectedPrice(model, "completion", d.currency)
                   diff == 100 * d.estimatedCostCents - exact
               IN /\ d.currency = data.currency
                  /\ diff <= 50 /\ diff >= -50
                  /\ (d.prompt = 1000000 /\ d.completion = 0 /\ model = ModelLarge
                      /\ d.currency = "USD") => d.estimatedCostCents = 2000000

\* A streamed million prompt tokens on the large model in USD: the partial
\* output and the returned output both report 200 cents.
C20_Witness ==
    /\ pc = "returned"
    /\ data.useStream
    /\ model = ModelLarge
    /\ currency = "USD"
    /\ Len(emitted) = 1
    /\ emitted[1].tokenDetails.prompt = 1000000
    /\ emitted[1].tokenDetails.estimatedCostCents = 2000000
    /\ output.tokenDetails.estimatedCostCents = 2000000

\* C21: a price that is unavailable costs nothing and fails nothing: every
\* reported cost is a number; with the "-" completion price of
\* mistral-embed the cost is the prompt component alone, for a model id
\* that is not in the table it is 0, and no invocation fails over pricing.
C21_UnavailablePriceIsZero ==
    /\ \A d \in SeenDetails :
          /\ d.estimatedCostCents # NaN
          /\ d.estimatedCostCents >= 0
          /\ (model = ModelEmbed /\ ~d.note) =>
                LET diff == 100 * d.estimatedCostCents
                            - d.prompt * ExpectedPrice(ModelEmbed, "prompt", d.currency)
                IN diff <= 50 /\ diff >= -50
          /\ model = ModelUnknown => d.estimatedCostCents = 0
    /\ pc = "failed" => error \in {"Mistral API error", "No response body", "TypeError"}
    /\ error = "TypeError" => ~json.usage.present

\* mistral-embed with 300 prompt and 200 completion tokens at $0.1 and
\* "-": 0.003 cents, the prompt component alone.
C21_Witness ==
    /\ pc = "returned"
    /\ model = ModelEmbed
    /\ currency = "USD"
    /\ ~output.tokenDetails.note
    /\ output.tokenDetails.prompt = 300
    /\ output.tokenDetails.completion = 200
    /\ output.tokenDetails.estimatedCostCents = 30

\* C22: what the callback was handed at an emission keeps the response
\* text, the message and the token details it had at that call, whatever
\* is processed afterwards.
C22_EmissionsImmutable ==
    \A i \in 1..Len(emitted) :
        LET now == HandedObject(output)
        IN /\ now.ports = emitted[i].ports
           /\ now.response = emitted[i].response
           /\ now.message = emitted[i].message
           /\ now.tokenDetails = emitted[i].tokenDetails

\* C23: a non-streaming invocation that returns has read nothing through
\* the decoder and emitted nothing; its output holds the body's content as
\* response text, the request messages followed by one assistant message
\* of that text, and the body's usage record, not marked as an estimate.
C23_NonStreaming ==
    (pc = "returned" /\ ~data.useStream) =>
        /\ emitted = <<>>
        /\ pos = 0 /\ allChunks = <<>> /\ responseParts = <<>>
        /\ output.ports = {"response", "message", "messages", "tokenDetails"}
        /\ (json.hasChoice /\ json.content.present) =>
              /\ output.response = json.content.text
              /\ output.message.message = json.content.text
        /\ output.message.type = "assistant"
        /\ Len(output.messages) = Len(messages) + 1
        /\ \A i \in 1..Len(messages) :
              /\ output.messages[i].type = messages[i].role
              /\ output.messages[i].message = messages[i].content
        /\ output.messages[Len(messages) + 1] = output.message
        /\ ~output.tokenDetails.note
        /\ output.tokenDetails.prompt = json.usage.prompt_tokens
        /\ output.tokenDetails.completion = json.usage.completion_tokens
        /\ output.tokenDetails.total = json.usage.total_tokens

C23_Witness ==
    /\ pc = "returned"
    /\ ~data.useStream
    /\ output.response = TextHi
    /\ Len(output.messages) = 3
    /\ output.tokenDetails.total = 7
    /\ emitted = <<>>

\* Whether any of the response body has been read.
BodyTouched == pos > 0 \/ json.read

\* C25: once any of the response body has been read, or the cancellation
\* signal has fired, the invocation sends no further request; it never
\* sends more than one.
C25_NoRetryAfterRead ==
    [][/\ (BodyTouched \/ BodyTouched' \/ aborted) => httpRequests' = httpRequests
       /\ httpRequests' <= 1]_vars

C25_Witness ==
    /\ pc = "returned"
    /\ pos > 0
    /\ Len(emitted) = 2
    /\ httpRequests = 1

\* C26: after a response whose status is not a success the invocation has
\* failed with the `Mistral API error` message; nothing of the body was
\* decoded, nothing was emitted and no output port was written.
C26_StatusError ==
    status = "error" =>
        /\ pc = "failed"
        /\ error = "Mistral API error"
        /\ pos = 0 /\ buffer = <<>> /\ allChunks = <<>>
        /\ ~json.read
        /\ emitted = <<>>
        /\ output.ports = {}

C26_Witness ==
    /\ status = "error"
    /\ pc = "failed"
    /\ error = "Mistral API error"
    /\ httpRequests = 1

\* The payloads that hold a usage record whose total_tokens is not 0.
NonzeroUsagePayloads == {PayloadHiUsage, PayloadUsageOnly, PayloadHiMillion}

\* C27: while no usage record has been captured, no retained raw chunk
\* holds a usage record with a nonzero total, so the scan after the stream
\* finds nothing: the returned details are an estimate exactly when no
\* retained chunk holds such a record.
C27_ScanFindsNothing ==
    /\ (pc = "streaming" /\ ~tokenUsageFound) =>
          \A i \in 1..Len(allChunks) : allChunks[i] \notin NonzeroUsagePayloads
    /\ pc = "returned" =>
          (output.tokenDetails.note
              <=> \A i \in 1..Len(allChunks) : allChunks[i] \notin NonzeroUsagePayloads)

\* The scan ran over retained chunks, one of them with a usage record of
\* total 0, and the result is the estimate.
C27_Witness ==
    /\ pc = "returned"
    /\ output.tokenDetails.note
    /\ Len(allChunks) >= 2
    /\ \E i \in 1..Len(allChunks) : allChunks[i] = PayloadEmptyZero

\* The positions in `kinds` of the lines with a usage record of nonzero
\* total, of the lines with content, and the position of the j-th of these.
UsagePositions(kinds) == {i \in 1..Len(kinds) : kinds[i] \in NonzeroUsageKinds}
ContentPositions(kinds) == {i \in 1..Len(kinds) : kinds[i] \in ContentKinds}
ContentPosition(kinds, j) ==
    CHOOSE i \in ContentPositions(kinds) :
        Cardinality({x \in ContentPositions(kinds) : x <= i}) = j
MaxOf(S) == CHOOSE i \in S : \A x \in S : x <= i
SameCounts(d, usage) ==
    /\ d.prompt = usage.prompt_tokens
    /\ d.completion = usage.completion_tokens
    /\ d.total = usage.total_tokens

\* C28: of several usage records with a nonzero total the last in stream
\* order wins: the returned tokenDetails hold the counts of the last one,
\* and the j-th emission holds tokenDetails exactly when such a record
\* came at or before its chunk, with the counts of the latest one by then.
C28_LastUsageWins ==
    data.useStream =>
        LET all == TerminatedLines
            ups == UsagePositions(all)
        IN /\ (pc = "returned" /\ ups # {}) =>
                 /\ ~output.tokenDetails.note
                 /\ SameCounts(output.tokenDetails, KindUsage(all[MaxOf(ups)]))
           /\ \A j \in 1..Len(emitted) :
                 LET at == ContentPosition(all, j)
                     before == {i \in ups : i <= at}
                 IN /\ ("tokenDetails" \in emitted[j].ports) <=> (before # {})
                    /\ before # {} =>
                          SameCounts(emitted[j].tokenDetails, KindUsage(all[MaxOf(before)]))

\* A record of 7 tokens, then one of a million: the first emission shows
\* 7, the later ones and the returned details a million.
C28_Witness ==
    /\ pc = "returned"
    /\ stream = <<"hiUsage", "hiMillion", "there">>
    /\ terminated
    /\ Len(emitted) = 3
    /\ emitted[1].tokenDetails.total = 7
    /\ emitted[2].tokenDetails.total = 1000000
    /\ emitted[3].tokenDetails.total = 1000000
    /\ output.tokenDetails.total = 1000000

\* C29: a streaming invocation that returns holds tokenDetails in the
\* selected currency; it holds response, message and messages exactly when
\* a chunk with content was processed, and then they are those of the
\* last emission.
C29_FinalOutput ==
    (pc = "returned" /\ data.useStream) =>
        LET some == DeltasOf(TerminatedLines) # <<>>
            three == {"response", "message", "messages"}
        IN /\ "tokenDetails" \in output.ports
           /\ output.tokenDetails.currency = data.currency
           /\ IF some
              THEN /\ three \subseteq output.ports
                   /\ emitted # <<>>
                   /\ output.response = emitted[Len(emitted)].response
                   /\ output.message = emitted[Len(emitted)].message
                   /\ output.messages = emitted[Len(emitted)].messages
              ELSE three \cap output.ports = {} /\ emitted = <<>>

C29_Witness ==
    /\ pc = "returned"
    /\ data.useStream
    /\ data.currency = "EUR"
    /\ output.tokenDetails.note
    /\ output.tokenDetails.currency = "EUR"
    /\ Len(emitted) = 2
    /\ output.response = TextHi \o TextThere

\* What an invocation produces on the body `kinds` when it runs alone:
\* the locals after one read of the whole body and the end of the stream.
RunAlone(kinds) == FinishStep(ReadStep(InitLocals, Req, Render(kinds, TRUE)), Req)

\* C24: whatever the interleaving of the reads of two invocations, the
\* emissions of each are at every moment a prefix of those it produces
\* alone on its response, and once it has returned its emissions and its
\* output are those it produces alone.
C24_Isolated ==
    LET mine == RunAlone(stream)
        theirs == RunAlone(peer.stream)
    IN /\ IsPrefixOf(emitted, mine.emitted)
       /\ IsPrefixOf(peer.locals.emitted, theirs.emitted)
       /\ pc = "returned" => emitted = mine.emitted /\ output = mine.output
       /\ peer.pc = "returned" =>
             /\ peer.locals.emitted = theirs.emitted
             /\ peer.locals.output = theirs.output

\* Both returned, each after the other had emitted, with different texts.
C24_Witness ==
    /\ pc = "returned"
    /\ peer.pc = "returned"
    /\ stream = <<"hi">>
    /\ peer.stream = <<"there", "hiUsage">>
    /\ output.response = TextHi
    /\ peer.locals.output.response = TextThere \o TextHi
    /\ Len(peer.locals.emitted) = 2

\* The payloads process parsed: the retained chunks that are well-formed.
ParsedByProcess ==
    LET ok == SelectSeq(allChunks, JsonWellFormed)
    IN [i \in 1..Len(ok) |-> JsonParse(ok[i])]

\* C30: on the same reads the generator has yielded exactly the payloads
\* that process has parsed, in the same order, and holds back the same
\* incomplete line.
C30_DecodersAgree ==
    /\ gen.yielded = ParsedByProcess
    /\ pc = "streaming" => gen.buffer = buffer

C30_Witness ==
    /\ pc = "returned"
    /\ Len(gen.yielded) = 2
    /\ Len(allChunks) = 3
    /\ pos > MaxRead

====
